---- MODULE Spec2Model ----
(***************************************************************************)
(* EstablishmentGazetteer (src/establishment/__init__.py): the persistent  *)
(* block index `indexed_records` kept in SQLite, the indexer               *)
(* (block_index / reblock_canonical / the constructor's first-use check),  *)
(* the block generator blocks() and the result hydrator _hydrate_matches.  *)
(*                                                                         *)
(* SQLite, as driven by Python's sqlite3 module in its default (legacy)    *)
(* transaction mode: DDL statements (DROP TABLE, CREATE TABLE) issued      *)
(* outside a transaction run in autocommit mode and are visible to other   *)
(* connections at once; the first DML statement (REPLACE INTO) implicitly  *)
(* opens a transaction whose writes stay private to the connection until   *)
(* con.commit(); a connection that goes away without commit loses them.    *)
(***************************************************************************)
EXTENDS Integers, Sequences, FiniteSets, Bags, TLC

\* ------------------------------------------------------------------ bounds
\* number of canonical record ids 1..MaxCanon
MaxCanon == 2
\* number of messy record ids 1..MaxMessy
MaxMessy == 2

CanonIds == 1..MaxCanon
MessyIds == 1..MaxMessy

\* The words a record's blocked field may hold.  A record's field data is
\* held as the set of words in it: all the fingerprinter reads from it.
Tokens == {"acme", "inc"}
Fields == SUBSET Tokens

\* dict-like batches of records handed to block_index: id -> field data
RecordsOver(ids) == UNION {[D -> Fields] : D \in SUBSET ids}

\* The reference data shipped in the database file; no code of the package
\* writes the data table.  Row i, when present, holds CanonicalName(i).
CanonicalName(i) == IF i % 2 = 1 THEN {"acme", "inc"} ELSE {"acme"}
CanonicalTables == {[i \in D |-> CanonicalName(i)] : D \in SUBSET CanonIds}

\* The messy batches handed to _hydrate_matches, which passes the field data
\* through untouched: record i, when present, holds MessyName(i).
MessyName(i) == IF i % 3 = 1 THEN {"acme", "inc"} ELSE IF i % 3 = 2 THEN {"inc"} ELSE {}
MessyBatches == {[i \in D |-> MessyName(i)] : D \in SUBSET MessyIds}

VARIABLES
  canonical,        \* the canonical data table: id -> field data (id unique)
  tableExists,      \* committed: does table indexed_records exist
  indexed_records,  \* committed rows of indexed_records: a bag of <<block_key, record_id>>
  ready,            \* an EstablishmentGazetteer has been constructed
  ipc,              \* indexer: position inside block_index, or how the call ended
  iop,              \* indexer: the call running ("init", "reblock", "index", "none")
  idata,            \* indexer: the records handed to block_index
  irebuild,         \* indexer: the rebuild flag
  itx,              \* indexer connection: rows of indexed_records inside its open transaction
  ipre,             \* store when the running call started: <<tableExists, indexed_records>>
  bpc,              \* blocks() generator: "none", "created", "suspended", "done", "abandoned", "failed"
  bdata,            \* blocks(): the messy batch `data`
  blocking_map,     \* blocks(): rows of the connection's temporary table, a bag of <<block_key, record_id>>
  pairs,            \* blocks(): rows the cursor `pairs` has still to return, a bag of <<a, b, columns>>
  emitted,          \* blocks(): the groups yielded so far
  conOpen,          \* blocks(): its connection is open
  cursorOpen,       \* blocks(): the cursor `pairs` is open
  btx,              \* blocks(): its transaction: "none", "open", "rolledback", "committed"
  bwrites,          \* blocks(): rows its open transaction has written to indexed_records
  entity_map,       \* the entity table: canonical id -> entity_id (id unique)
  hpc,              \* _hydrate_matches generator: "none", "created", "suspended", "draining", "done", "abandoned", "failed"
  hdata,            \* _hydrate_matches: the messy batch `data`
  result,           \* _hydrate_matches: the raw result the loop of line 218 holds
  a,                \* _hydrate_matches: the local `a`; 0 stands for None
  seen_messy,       \* _hydrate_matches: the set seen_messy
  rest,             \* _hydrate_matches: ids the loop of line 260 has still to yield
  hout              \* _hydrate_matches: the tuples yielded so far

storeVars == <<tableExists, indexed_records>>
indexVars == <<ipc, iop, idata, irebuild, itx, ipre>>
blocksVars == <<bpc, bdata, blocking_map, pairs, emitted, conOpen, cursorOpen, btx, bwrites>>
hydrateVars == <<hpc, hdata, result, a, seen_messy, rest, hout>>
vars == <<canonical, tableExists, indexed_records, ready, ipc, iop, idata, irebuild, itx, ipre,
          bpc, bdata, blocking_map, pairs, emitted, conOpen, cursorOpen, btx, bwrites,
          entity_map, hpc, hdata, result, a, seen_messy, rest, hout>>

NoRecords == << >>
NoStore == <<FALSE, EmptyBag>>

\* ------------------------------------------------------- the fingerprinter
\* self.fingerprinter(records, target): the (block_key, record_id) rows of a
\* batch, one block key per word of the record's field.
Fingerprinter(records, target) ==
  {<<t, id>> : t \in Tokens, id \in DOMAIN records} \cap
  UNION {{<<t, id>> : t \in records[id]} : id \in DOMAIN records}

\* --------------------------------------------------------------- SQL pieces
\* A store is <<the table exists, its rows>>.
\* (mutant of DropTableIfExists: the DROP is left out)
DropNothing(store) == store

\* line 313: DROP TABLE IF EXISTS indexed_records
DropTableIfExists(store) == <<FALSE, EmptyBag>>

\* lines 318-325: CREATE TABLE IF NOT EXISTS indexed_records (...)
CreateTableIfNotExists(store) == IF store[1] THEN store ELSE <<TRUE, EmptyBag>>

\* lines 327-331: REPLACE INTO indexed_records VALUES (?, ?) under UNIQUE
\* (block_key, record_id), once per row: every stored copy of the row is
\* deleted and one copy inserted; rows with another key or another id are
\* left alone.
ReplaceInto(table, rows) ==
  [r \in (DOMAIN table) \cup rows |-> IF r \in rows THEN 1 ELSE table[r]]

\* ------------------------------------------------------------- block_index
\* lines 310-316: connect; DROP TABLE IF EXISTS when rebuild, outside any
\* transaction, so committed at once; pragma journal_mode=wal.
BlockIndexDrop(op, data, rebuild) ==
  /\ ipc = "idle"
  /\ ipc' = "opened"
  /\ iop' = op
  /\ idata' = data
  /\ irebuild' = rebuild
  /\ ipre' = <<tableExists, indexed_records>>
  /\ itx' = EmptyBag
  /\ LET store == IF rebuild THEN DropTableIfExists(<<tableExists, indexed_records>>)
                             ELSE <<tableExists, indexed_records>>
     IN tableExists' = store[1] /\ indexed_records' = store[2]
  /\ UNCHANGED <<canonical, ready, blocksVars, entity_map, hydrateVars>>

\* lines 318-325: CREATE TABLE IF NOT EXISTS, outside any transaction, so
\* committed at once.
BlockIndexCreate ==
  /\ ipc = "opened"
  /\ ipc' = "created"
  /\ LET store == CreateTableIfNotExists(<<tableExists, indexed_records>>)
     IN tableExists' = store[1] /\ indexed_records' = store[2]
  /\ UNCHANGED <<canonical, ready, iop, idata, irebuild, itx, ipre, blocksVars, entity_map, hydrateVars>>

\* lines 327-341: executemany REPLACE INTO over the fingerprinter's rows, inside
\* the transaction sqlite3 opens for it; CREATE UNIQUE INDEX and ANALYZE run
\* in the same transaction.  Nothing is committed yet.
BlockIndexInsert ==
  /\ ipc = "created"
  /\ ipc' = "inserted"
  /\ itx' = ReplaceInto(indexed_records, Fingerprinter(idata, TRUE))
  /\ UNCHANGED <<canonical, ready, storeVars, iop, idata, irebuild, ipre, blocksVars, entity_map, hydrateVars>>

\* lines 343-344: con.commit(); con.close(); the call returns.  A constructor
\* whose rebuild returned leaves a gazetteer.
BlockIndexCommit ==
  /\ ipc = "inserted"
  /\ ipc' = "returned"
  /\ indexed_records' = itx
  /\ itx' = EmptyBag
  /\ ready' = (ready \/ iop = "init")
  /\ UNCHANGED <<canonical, tableExists, iop, idata, irebuild, ipre, blocksVars, entity_map, hydrateVars>>

\* An exception inside block_index (the fingerprinter raises while
\* executemany consumes it, or the storage layer fails): the call ends, no
\* statement after the raising one runs, the open transaction is never
\* committed.  Nothing in block_index restores what DROP and CREATE did.
BlockIndexRaise ==
  /\ ipc \in {"opened", "created", "inserted"}
  /\ ipc' = "raised"
  /\ itx' = EmptyBag
  /\ UNCHANGED <<canonical, ready, storeVars, iop, idata, irebuild, ipre, blocksVars, entity_map, hydrateVars>>

\* The call is over (it returned at line 344, or its exception reached the
\* caller): its locals and its connection are gone.
BlockIndexExit ==
  /\ ipc \in {"returned", "raised"}
  /\ ipc' = "idle"
  /\ iop' = "none"
  /\ idata' = NoRecords
  /\ irebuild' = FALSE
  /\ ipre' = NoStore
  /\ UNCHANGED <<canonical, ready, storeVars, itx, blocksVars, entity_map, hydrateVars>>

\* lines 266-294: reblock_canonical reads every row of the data table and
\* hands them to block_index(results, rebuild=True).
reblock_canonical(op) == BlockIndexDrop(op, canonical, TRUE)

\* lines 43-60: the constructor rebuilds the index only when no table named
\* indexed_records exists.
Constructor ==
  /\ ipc = "idle"
  /\ ~ready
  /\ IF tableExists
       THEN ready' = TRUE /\ UNCHANGED <<canonical, storeVars, indexVars, blocksVars, entity_map, hydrateVars>>
       ELSE reblock_canonical("init")

\* an explicit reblock_canonical() call on a constructed gazetteer
Reblock ==
  /\ ready
  /\ reblock_canonical("reblock")

\* block_index(records, rebuild) on a constructed gazetteer
Index ==
  /\ ready
  /\ \E data \in RecordsOver(CanonIds), rebuild \in BOOLEAN :
       BlockIndexDrop("index", data, rebuild)

\* ------------------------------------------------------------------ blocks
RECURSIVE SumOver(_, _)
SumOver(S, f) ==
  IF S = {} THEN 0
  ELSE LET x == CHOOSE y \in S : TRUE IN f[x] + SumOver(S \ {x}, f)

\* (mutant of JoinRows: the join without USING (block_key), every staged
\* record against every indexed record)
JoinRowsCross(bm, ir, dt) ==
  LET hit == {p \in {<<ra[2], rb[2]>> : ra \in DOMAIN bm, rb \in DOMAIN ir} : p[2] \in DOMAIN dt}
  IN [r \in {<<p[1], p[2], dt[p[2]]>> : p \in hit} |-> 1]

\* lines 129-132: blocking_map a INNER JOIN indexed_records b USING
\* (block_key) INNER JOIN data_table dt ON b.record_id = id.  One row
\* <<a.record_id, b.record_id, columns>> per matching combination of rows, so
\* a pair sharing n block keys comes n times.
JoinRows(bm, ir, dt) ==
  LET cand == {<<ra[2], rb[2]>> : ra \in DOMAIN bm, rb \in DOMAIN ir}
      n(x, y) == SumOver(Tokens, [k \in Tokens |->
                   (IF <<k, x>> \in DOMAIN bm THEN bm[<<k, x>>] ELSE 0)
                 * (IF <<k, y>> \in DOMAIN ir THEN ir[<<k, y>>] ELSE 0)])
      hit == {p \in cand : p[2] \in DOMAIN dt /\ n(p[1], p[2]) > 0}
  IN [r \in {<<p[1], p[2], dt[p[2]]>> : p \in hit} |-> n(r[1], r[2])]

\* (mutant of SelectDistinct: a plain SELECT)
SelectAll(rows) == rows

\* line 125: SELECT DISTINCT keeps one copy of each row
SelectDistinct(rows) == [r \in DOMAIN rows |-> 1]

\* lines 123-138: the query behind the cursor `pairs`
PairsQuery(bm, ir, dt) == SelectDistinct(JoinRows(bm, ir, dt))

\* lines 133-134, 140-142: ORDER BY a.record_id makes the rows of one messy
\* record contiguous, lowest id first; groupby cuts the next run of equal
\* record_id_a.
NextKey(rows) == CHOOSE k \in {r[1] : r \in DOMAIN rows} : \A r \in DOMAIN rows : k <= r[1]
GroupRows(rows, key) == {r \in DOMAIN rows : r[1] = key}
RestRows(rows, key) == [r \in (DOMAIN rows) \ GroupRows(rows, key) |-> rows[r]]

\* lines 145-153: the list yielded for one messy record, kept as a bag of
\* pairs ((a_record_id, a_record), (record_id_b, dict(row))): the query fixes
\* no order inside a group.
PairBlock(rows, key, data) ==
  LET pr(r) == << <<key, data[key]>>,
                  <<r[2], [record_id_a |-> r[1], record_id_b |-> r[2], fields |-> r[3]]>> >>
  IN [p \in {pr(r) : r \in GroupRows(rows, key)} |->
        SumOver(GroupRows(rows, key), [r \in GroupRows(rows, key) |-> IF pr(r) = p THEN rows[r] ELSE 0])]

\* (mutant of StageRows: the rows are inserted into indexed_records)
StageRowsInIndex(db, rows) == [db EXCEPT !.indexed_records = db.indexed_records (+) SetToBag(rows)]

\* lines 108-121: CREATE TEMPORARY TABLE blocking_map and INSERT INTO
\* blocking_map over the fingerprinter's rows.  db is what the connection
\* sees: its temporary table and, inside its transaction, indexed_records.
StageRows(db, rows) == [db EXCEPT !.blocking_map = db.blocking_map (+) SetToBag(rows)]

\* the connection of a blocks() call once lines 103-121 have run
Staged(ir, data) ==
  StageRows([blocking_map |-> EmptyBag, indexed_records |-> ir], Fingerprinter(data, FALSE))

\* lines 144-157: one turn of the for loop over pair_blocks: the next group is
\* built and yielded; when the cursor is exhausted the loop ends and the
\* cursor is closed, the transaction rolled back, the connection closed.
BlocksLoop(rows) ==
  IF rows = EmptyBag
    THEN /\ bpc' = "done"
         /\ pairs' = EmptyBag
         /\ cursorOpen' = FALSE
         /\ btx' = "rolledback"
         /\ conOpen' = FALSE
         /\ blocking_map' = EmptyBag
         /\ bwrites' = EmptyBag
         /\ UNCHANGED emitted
    ELSE /\ bpc' = "suspended"
         /\ emitted' = Append(emitted, PairBlock(rows, NextKey(rows), bdata))
         /\ pairs' = RestRows(rows, NextKey(rows))
         /\ cursorOpen' = TRUE
         /\ btx' = "open"
         /\ conOpen' = TRUE
         /\ blocking_map' = Staged(indexed_records, bdata).blocking_map
         /\ bwrites' = Staged(indexed_records, bdata).indexed_records (-) indexed_records

\* lines 103-147, the first next() on the generator: connect, BEGIN, CREATE
\* TEMPORARY TABLE blocking_map, stage the batch's fingerprints, run the join
\* (it reads the committed indexed_records; with no such table the statement
\* raises and nothing after it runs), then the first turn of the loop.
BlocksStart ==
  /\ bpc = "created"
  /\ IF tableExists
       THEN LET db == Staged(indexed_records, bdata)
            IN BlocksLoop(PairsQuery(db.blocking_map, db.indexed_records, canonical))
       ELSE /\ bpc' = "failed"
            /\ conOpen' = TRUE
            /\ btx' = "open"
            /\ blocking_map' = Staged(EmptyBag, bdata).blocking_map
            /\ bwrites' = Staged(EmptyBag, bdata).indexed_records
            /\ UNCHANGED <<pairs, emitted, cursorOpen>>
  /\ UNCHANGED <<canonical, ready, storeVars, indexVars, bdata, entity_map, hydrateVars>>

\* a later next(): the generator resumes after the yield
BlocksNext ==
  /\ bpc = "suspended"
  /\ BlocksLoop(pairs)
  /\ UNCHANGED <<canonical, ready, storeVars, indexVars, bdata, entity_map, hydrateVars>>

\* The caller stops iterating (close() or dropping the generator): the
\* generator ends at the yield of line 147; lines 155-157 are not in a
\* finally block and do not run.
BlocksClose ==
  /\ bpc = "suspended"
  /\ bpc' = "abandoned"
  /\ UNCHANGED <<canonical, ready, storeVars, indexVars,
                 bdata, blocking_map, pairs, emitted, conOpen, cursorOpen, btx, bwrites,
                 entity_map, hydrateVars>>

\* The storage layer raises while the cursor is stepped for the next group:
\* the exception leaves the generator, lines 155-157 do not run.
BlocksRaise ==
  /\ bpc = "suspended"
  /\ pairs # EmptyBag
  /\ bpc' = "failed"
  /\ UNCHANGED <<canonical, ready, storeVars, indexVars,
                 bdata, blocking_map, pairs, emitted, conOpen, cursorOpen, btx, bwrites,
                 entity_map, hydrateVars>>

\* --------------------------------------------------------- _hydrate_matches
Entities == {"E1", "E2"}
EntityTables == UNION {[D -> Entities] : D \in SUBSET CanonIds}

\* A raw result as many_to_n hands it over for messy record m: a non-empty
\* ranked list of ((m, b), score), every canonical id b once (blocks() gives
\* each pair once) and with a row in the data table (blocks() joins on it),
\* scores falling with the rank.
RankedIds(ids) ==
  UNION {{q \in [1..n -> ids] : \A i, j \in 1..n : q[i] = q[j] => i = j} :
           n \in 1..Cardinality(ids)}
RawResults(m, ids) ==
  {[i \in 1..Len(q) |-> [pair |-> <<m, q[i]>>, score |-> 100 - 10 * i]] : q \in RankedIds(ids)}

\* lines 222-243: the rows of entity_map INNER JOIN data_table USING (id)
\* WHERE id IN (the result's canonical ids), keyed by id
EntityLookup(res, em, dt) ==
  [id \in {res[i].pair[2] : i \in 1..Len(res)} \cap DOMAIN em \cap DOMAIN dt |->
     [entity_id |-> em[id], id |-> id, fields |-> dt[id]]]

\* lines 249-254: the walk over one raw result.  entity_lookup[b] raises
\* KeyError for an id without a row; pop("entity_id") removes the key from
\* the row kept in entity_lookup, so a second visit of b raises KeyError too.
\* An entity already seen is skipped.
RECURSIVE PrepareFrom(_, _, _, _, _, _)
PrepareFrom(res, i, lookup, popped, seen_entities, prepared_result) ==
  IF i > Len(res) THEN [error |-> FALSE, matches |-> prepared_result]
  ELSE LET b == res[i].pair[2] IN
       IF b \notin DOMAIN lookup \/ b \in popped
         THEN [error |-> TRUE, matches |-> prepared_result]
       ELSE LET entity_id == lookup[b].entity_id
                canon == [id |-> lookup[b].id, fields |-> lookup[b].fields]
            IN IF entity_id \notin seen_entities
                 THEN PrepareFrom(res, i + 1, lookup, popped \cup {b},
                                  seen_entities \cup {entity_id},
                                  Append(prepared_result, <<entity_id, b, canon, res[i].score>>))
                 ELSE PrepareFrom(res, i + 1, lookup, popped \cup {b},
                                  seen_entities, prepared_result)

\* (mutant of Prepare: the seen_entities test is left out)
PrepareNoDedup(res, lookup) ==
  IF \E i \in 1..Len(res) : res[i].pair[2] \notin DOMAIN lookup
    THEN [error |-> TRUE, matches |-> << >>]
    ELSE [error |-> FALSE,
          matches |-> [i \in 1..Len(res) |->
             <<lookup[res[i].pair[2]].entity_id, res[i].pair[2],
               [id |-> lookup[res[i].pair[2]].id, fields |-> lookup[res[i].pair[2]].fields],
               res[i].score>>]]

\* (mutant of Prepare: entity_lookup.get(b) with the missing ids skipped)
PrepareSkipMissing(res, lookup) ==
  LET HasRow(x) == x.pair[2] \in DOMAIN lookup
  IN PrepareFrom(SelectSeq(res, HasRow), 1, lookup, {}, {}, << >>)

Prepare(res, lookup) == PrepareFrom(res, 1, lookup, {}, {}, << >>)

\* line 256: the tuple yielded for a record with a raw result
MatchTuple(m, data, matches) == << <<m, data[m]>>, matches >>

\* line 261: the tuple yielded for a record without one
EmptyTuple(k, data) == <<k, data[k], << >> >>

\* (mutant of ResumedSeen: seen_messy.add(a) is left out)
ResumedSeenStale == seen_messy

\* line 258, run when the generator resumes after the yield of line 256
ResumedSeen == IF hpc = "suspended" THEN seen_messy \cup {a} ELSE seen_messy

\* lines 218-256: the generator runs (from its start, or on from the yield of
\* line 256) to the next raw result and through it: the tuple is yielded, or
\* the lookup raises.  Raw results come in ascending order of messy id, as
\* blocks() emits the groups, one per messy id at most.
HydrateResult ==
  /\ hpc \in {"created", "suspended"}
  /\ \E m \in DOMAIN hdata :
       /\ \A k \in ResumedSeen : k < m
       /\ \E res \in RawResults(m, DOMAIN canonical) :
            LET p == Prepare(res, EntityLookup(res, entity_map, canonical)) IN
            /\ result' = res
            /\ a' = m
            /\ seen_messy' = ResumedSeen
            /\ IF p.error
                 THEN hpc' = "failed" /\ UNCHANGED hout
                 ELSE hpc' = "suspended" /\ hout' = Append(hout, MatchTuple(m, hdata, p.matches))
  /\ UNCHANGED <<canonical, ready, storeVars, indexVars, blocksVars, entity_map, hdata, rest>>

\* lines 260-261: the raw results are exhausted; the loop over
\* data.keys() - seen_messy starts and yields its first tuple, or finds
\* nothing to yield and the generator returns.  A set is walked in no fixed
\* order.
HydrateTail ==
  /\ hpc \in {"created", "suspended"}
  /\ seen_messy' = ResumedSeen
  /\ LET todo == (DOMAIN hdata) \ ResumedSeen IN
       IF todo = {}
         THEN hpc' = "done" /\ rest' = {} /\ UNCHANGED hout
         ELSE \E k \in todo :
                /\ hpc' = "draining"
                /\ rest' = todo \ {k}
                /\ hout' = Append(hout, EmptyTuple(k, hdata))
  /\ UNCHANGED <<canonical, ready, storeVars, indexVars, blocksVars, entity_map, hdata, result, a>>

\* the generator resumes after the yield of line 261
HydrateDrain ==
  /\ hpc = "draining"
  /\ IF rest = {}
       THEN hpc' = "done" /\ UNCHANGED <<rest, hout>>
       ELSE \E k \in rest :
              /\ hpc' = "draining"
              /\ rest' = rest \ {k}
              /\ hout' = Append(hout, EmptyTuple(k, hdata))
  /\ UNCHANGED <<canonical, ready, storeVars, indexVars, blocksVars, entity_map,
                 hdata, result, a, seen_messy>>

\* the caller stops iterating at a yield
HydrateClose ==
  /\ hpc \in {"suspended", "draining"}
  /\ hpc' = "abandoned"
  /\ UNCHANGED <<canonical, ready, storeVars, indexVars, blocksVars, entity_map,
                 hdata, result, a, seen_messy, rest, hout>>

\* ---------------------------------------------------------- specifications
IndexerIdle ==
  /\ ipc = "idle"
  /\ iop = "none"
  /\ idata = NoRecords
  /\ irebuild = FALSE
  /\ itx = EmptyBag
  /\ ipre = NoStore

NoBlocks ==
  /\ bpc = "none"
  /\ bdata = NoRecords
  /\ blocking_map = EmptyBag
  /\ pairs = EmptyBag
  /\ emitted = << >>
  /\ conOpen = FALSE
  /\ cursorOpen = FALSE
  /\ btx = "none"
  /\ bwrites = EmptyBag

\* blocks(data) has been called: the generator exists, none of its code has run
BlocksCreated ==
  /\ bpc = "created"
  /\ bdata \in RecordsOver(MessyIds)
  /\ blocking_map = EmptyBag
  /\ pairs = EmptyBag
  /\ emitted = << >>
  /\ conOpen = FALSE
  /\ cursorOpen = FALSE
  /\ btx = "none"
  /\ bwrites = EmptyBag

NoHydrate ==
  /\ hpc = "none"
  /\ hdata = NoRecords
  /\ result = << >>
  /\ a = 0
  /\ seen_messy = {}
  /\ rest = {}
  /\ hout = << >>

\* _hydrate_matches(data, results) has been called: the generator exists, none
\* of its code has run
HydrateCreated ==
  /\ hpc = "created"
  /\ hdata \in MessyBatches
  /\ result = << >>
  /\ a = 0
  /\ seen_messy = {}
  /\ rest = {}
  /\ hout = << >>

\* an entity table naming an entity for every row of the data table
FullEntityMap(dt) == [i \in DOMAIN dt |-> IF i % 2 = 1 THEN "E1" ELSE "E2"]

\* the stores block_index calls can leave: no table, or any set of rows
Stores == {s \in {FALSE, TRUE} \X {SetToBag(R) : R \in SUBSET (Tokens \X CanonIds)} :
             s[1] \/ s[2] = EmptyBag}

\* A fresh database file: the data table, no index, no gazetteer yet.
Init ==
  /\ canonical \in CanonicalTables
  /\ tableExists = FALSE
  /\ indexed_records = EmptyBag
  /\ ready = FALSE
  /\ IndexerIdle
  /\ NoBlocks
  /\ entity_map = FullEntityMap(canonical)
  /\ NoHydrate

Next ==
  \/ Constructor
  \/ Reblock
  \/ Index
  \/ BlockIndexCreate
  \/ BlockIndexInsert
  \/ BlockIndexCommit
  \/ BlockIndexRaise
  \/ BlockIndexExit

\* the indexer: the constructor, reblock_canonical and block_index calls
Spec == Init /\ [][Next]_vars

\* One blocks() call on a constructed gazetteer, over any store.
InitBlocks ==
  /\ canonical \in CanonicalTables
  /\ \E s \in Stores : tableExists = s[1] /\ indexed_records = s[2]
  /\ ready = TRUE
  /\ IndexerIdle
  /\ BlocksCreated
  /\ entity_map = FullEntityMap(canonical)
  /\ NoHydrate

\* One _hydrate_matches() call on a constructed gazetteer, over any entity
\* table; the index is the one the constructor built.
InitHydrate ==
  /\ canonical \in CanonicalTables
  /\ tableExists = TRUE
  /\ indexed_records = SetToBag(Fingerprinter(canonical, TRUE))
  /\ ready = TRUE
  /\ IndexerIdle
  /\ NoBlocks
  /\ entity_map \in EntityTables
  /\ HydrateCreated

InitSearch == InitBlocks \/ InitHydrate

NextSearch ==
  \/ BlocksStart
  \/ BlocksNext
  \/ BlocksClose
  \/ BlocksRaise
  \/ HydrateResult
  \/ HydrateTail
  \/ HydrateDrain
  \/ HydrateClose

\* the two generators of a search() call, each run on its own

SpecSearch == InitSearch /\ [][NextSearch]_vars

\* A blocks() call on one connection while rebuilds of the index run on
\* another, over the index the constructor built.
InitConcurrent ==
  /\ canonical \in CanonicalTables
  /\ tableExists = TRUE
  /\ indexed_records = SetToBag(Fingerprinter(canonical, TRUE))
  /\ ready = TRUE
  /\ IndexerIdle
  /\ BlocksCreated
  /\ entity_map = FullEntityMap(canonical)
  /\ NoHydrate

NextConcurrent ==
  \/ Reblock
  \/ BlockIndexCreate
  \/ BlockIndexInsert
  \/ BlockIndexCommit
  \/ BlockIndexRaise
  \/ BlockIndexExit
  \/ BlocksStart
  \/ BlocksNext
  \/ BlocksClose
  \/ BlocksRaise

SpecConcurrent == InitConcurrent /\ [][NextConcurrent]_vars

\* ------------------------------------------------------------------ claims
\* the messy id and the match list of a tuple _hydrate_matches yielded
TupleId(t) == IF Len(t) = 3 THEN t[1] ELSE t[1][1]
TupleMatches(t) == t[Len(t)]

\* C1: when _hydrate_matches has been consumed to its end without error, the
\* messy ids of the tuples it yielded are exactly the keys of the batch, each
\* once, and an id that had no raw result carries an empty match list.
C1_Completeness ==
  hpc = "done" =>
    /\ \A i \in 1..Len(hout) : TupleId(hout[i]) \in DOMAIN hdata
    /\ \A k \in DOMAIN hdata : Cardinality({i \in 1..Len(hout) : TupleId(hout[i]) = k}) = 1
    /\ \A i \in 1..Len(hout) : TupleId(hout[i]) \notin seen_messy => TupleMatches(hout[i]) = << >>

\* a finished call that yielded a record with matches and a record without
C1_Witness ==
  /\ hpc = "done"
  /\ seen_messy # {}
  /\ seen_messy # DOMAIN hdata
  /\ \E i \in 1..Len(hout) : TupleId(hout[i]) \in seen_messy /\ TupleMatches(hout[i]) # << >>

\* the two ids of a pair blocks() yielded
PairKey(p) == <<p[1][1], p[2][1]>>

\* C2: within one blocks() call every (messy_id, canonical_id) pair is in at
\* most one yielded group and at most once in it, however many block keys
\* the two records share.
C2_PairUniqueness ==
  \A i, j \in 1..Len(emitted) :
    \A p \in DOMAIN emitted[i], q \in DOMAIN emitted[j] :
      /\ emitted[i][p] = 1
      /\ PairKey(p) = PairKey(q) => (i = j /\ p = q)

\* two groups yielded, one holding a pair that shares every block key
C2_Witness ==
  /\ Len(emitted) = 2
  /\ \E i \in 1..Len(emitted) : \E p \in DOMAIN emitted[i] :
       \A t \in Tokens : /\ t \in bdata[p[1][1]]
                         /\ <<t, p[2][1]>> \in DOMAIN indexed_records

\* the ranks of a raw result whose entity no earlier rank has
KeptRanks(res) ==
  {i \in 1..Len(res) :
     \A j \in 1..(i - 1) : entity_map[res[j].pair[2]] # entity_map[res[i].pair[2]]}

\* C3: the match list yielded for a messy record is its raw ranked list with
\* the first occurrence of every entity_id kept and every later one dropped,
\* order and scores as they were: no entity twice, scores not rising.
C3_EntityDedup ==
  hpc = "suspended" =>
    LET m == hout[Len(hout)][2]
        K == KeptRanks(result)
        nth(n) == CHOOSE i \in K : Cardinality({j \in K : j <= i}) = n
    IN /\ Len(m) = Cardinality(K)
       /\ \A n \in 1..Len(m) :
            LET b == result[nth(n)].pair[2] IN
            m[n] = <<entity_map[b], b, [id |-> b, fields |-> canonical[b]], result[nth(n)].score>>
       /\ \A n, k \in 1..Len(m) : n < k => (m[n][1] # m[k][1] /\ m[n][4] >= m[k][4])

\* a raw result of two matches of one entity, yielded as one match
C3_Witness ==
  /\ hpc = "suspended"
  /\ Len(result) = 2
  /\ Len(hout[Len(hout)][2]) = 1

\* C4: a blocks() call that runs its query while a rebuild is under way on
\* another connection reads the complete old index, never a dropped, empty
\* or part-filled one.
C4_AtomicRebuild ==
  [][(BlocksStart /\ ipc \in {"opened", "created", "inserted"} /\ irebuild)
        => <<tableExists, indexed_records>> = ipre]_vars

\* C5: however consumption of blocks() ends (exhausted, abandoned, raised),
\* the cursor is closed, the transaction rolled back, the connection closed.
C5_ReleaseOnExit ==
  bpc \in {"done", "abandoned", "failed"} =>
    (~cursorOpen /\ btx = "rolledback" /\ ~conOpen)

\* C6: a block_index(records, rebuild=True) call that raises leaves the
\* store as it was before the call.
C6_FailedRebuildKeepsStore ==
  (ipc = "raised" /\ irebuild) => <<tableExists, indexed_records>> = ipre

\* C7: a call that raises has yielded no tuple before.
C7_AllOrNothing == ~(hpc = "failed" /\ hout # << >>)

\* C8: after block_index(records, rebuild=False) the rows of every id of
\* `records` are exactly the fingerprinter's rows for the record supplied.
C8_IncrementalReplaces ==
  (ipc = "returned" /\ ~irebuild) =>
    \A id \in DOMAIN idata :
      {r \in DOMAIN indexed_records : r[2] = id} = {<<t, id>> : t \in idata[id]}

\* C9: no step of blocks() or _hydrate_matches() changes indexed_records, the
\* data table or the entity table, and the transaction of blocks() never holds
\* a write to indexed_records: the staged rows are in the temporary table only.
C9_SearchReadOnly ==
  [][/\ UNCHANGED <<canonical, entity_map, tableExists, indexed_records>>
     /\ bwrites' = EmptyBag]_vars

\* an abandoned blocks() call with its staged rows still in the temporary table
C9_Witness ==
  /\ bpc = "abandoned"
  /\ blocking_map # EmptyBag
  /\ pairs # EmptyBag

\* C10: after reblock_canonical() has returned, whatever the store held
\* before, indexed_records holds exactly the fingerprinter's rows for the data
\* table, each once.
C10_RebuildExact ==
  (ipc = "returned" /\ iop \in {"init", "reblock"}) =>
    /\ tableExists
    /\ indexed_records = SetToBag(Fingerprinter(canonical, TRUE))

\* a returned reblock_canonical() over a store that held a stale row
C10_Witness ==
  /\ ipc = "returned"
  /\ iop = "reblock"
  /\ ipre[1]
  /\ \E r \in DOMAIN ipre[2] : r \notin Fingerprinter(canonical, TRUE)
  /\ indexed_records # EmptyBag

\* C11: every tuple _hydrate_matches yields, for a record with matches and for
\* a record without, has the one three-part form (messy_id, fields, matches),
\* so that what destructures one destructures the other.
C11_UniformShape ==
  \A i, j \in 1..Len(hout) :
    /\ Len(hout[i]) = 3
    /\ Len(hout[i]) = Len(hout[j])

\* the messy id of a group blocks() yielded, and the canonical ids in it
GroupKey(g) == CHOOSE m \in MessyIds : \A p \in DOMAIN g : p[1][1] = m
GroupIds(g) == {p[2][1] : p \in DOMAIN g}

\* the canonical ids that share a signature with messy record m: some s has
\* (s, m) staged by the messy-side fingerprinter and (s, c) in indexed_records
SharedIds(m) ==
  {c \in CanonIds : \E s \in Tokens : /\ <<s, m>> \in Fingerprinter(bdata, FALSE)
                                      /\ <<s, c>> \in DOMAIN indexed_records}

\* C12 as stated: a blocks() call consumed to its end has yielded one group
\* for exactly the messy ids that share a signature with an indexed id, and
\* the canonical ids of the group of m are exactly the indexed ids sharing a
\* signature with m.
C12_EligibleByIndexAlone ==
  bpc = "done" =>
    /\ \A i, j \in 1..Len(emitted) : GroupKey(emitted[i]) = GroupKey(emitted[j]) => i = j
    /\ {GroupKey(emitted[i]) : i \in 1..Len(emitted)} = {m \in DOMAIN bdata : SharedIds(m) # {}}
    /\ \A i \in 1..Len(emitted) : GroupIds(emitted[i]) = SharedIds(GroupKey(emitted[i]))

\* C12 (amended): the same with the candidates of m being the indexed ids that
\* share a signature with m and have a row in the canonical data table; a
\* messy id with no such candidate gets no group.
C12_CandidateEligibility ==
  bpc = "done" =>
    LET Candidates(m) == SharedIds(m) \cap DOMAIN canonical IN
    /\ \A i \in 1..Len(emitted) : emitted[i] # EmptyBag
    /\ \A i, j \in 1..Len(emitted) : GroupKey(emitted[i]) = GroupKey(emitted[j]) => i = j
    /\ {GroupKey(emitted[i]) : i \in 1..Len(emitted)} = {m \in DOMAIN bdata : Candidates(m) # {}}
    /\ \A i \in 1..Len(emitted) : GroupIds(emitted[i]) = Candidates(GroupKey(emitted[i]))

\* a finished call that yielded a group, left a messy id without one, and
\* dropped from a group an indexed id that has no row in the data table
C12_Witness ==
  /\ bpc = "done"
  /\ emitted # << >>
  /\ \E m \in DOMAIN bdata : \A i \in 1..Len(emitted) : GroupKey(emitted[i]) # m
  /\ \E i \in 1..Len(emitted) :
       /\ SharedIds(GroupKey(emitted[i])) \ DOMAIN canonical # {}
       /\ Cardinality(GroupIds(emitted[i])) >= 1

\* C13: when a canonical id of the raw result being hydrated has no row in
\* the entity table, the call has raised, and no tuple was yielded for the
\* messy record of that result: no match list with the match left out.
C13_MissingEntityFailsLoudly ==
  (\E i \in 1..Len(result) : result[i].pair[2] \notin DOMAIN entity_map) =>
    /\ hpc = "failed"
    /\ \A j \in 1..Len(hout) : TupleId(hout[j]) # a

\* a call that raised on a raw result whose first match has an entity row and
\* whose second has none, after the tuple of an earlier record was yielded
C13_Witness ==
  /\ hpc = "failed"
  /\ Len(result) = 2
  /\ result[1].pair[2] \in DOMAIN entity_map
  /\ result[2].pair[2] \notin DOMAIN entity_map
  /\ hout # << >>
====
